---- MODULE Spec2Model ----
(***************************************************************************)
(* work_orchestrator: the task graph (core/tasks.py), the worktree slot    *)
(* pool, the agent-run lifecycle and the AgentMonitor (core/agents.py),    *)
(* over the tables of db/engine.py.                                        *)
(*                                                                         *)
(* Two specifications share the variables:                                 *)
(*   Spec       the run lifecycle: register, assign, launch, delegate,     *)
(*              cancel, process exits and the monitor, starting from a     *)
(*              database that holds two tasks.  The lifecycle reads a      *)
(*              task's status only in launch (is it todo?) and writes      *)
(*              slots and runs without looking at it, so status updates    *)
(*              by the user are left to SpecGraph;                         *)
(*   SpecGraph  the task graph: create, dependencies, status updates and   *)
(*              delete, starting from an empty database.                   *)
(***************************************************************************)
EXTENDS Integers, Sequences, FiniteSets, TLC

VARIABLES
    tasks,             \* table tasks: id -> row (the domain is the set of stored ids)
    deps,              \* table task_dependencies: set of <<task_id, depends_on_task_id>>
    events,            \* table task_events, in insertion order
    slots,             \* table worktree_slots: id -> row
    runs,              \* table agent_runs: a sequence, the index is the AUTOINCREMENT id
    active_processes,  \* agents._active_processes: the pids that have a Popen handle
    procs,             \* the operating system: pid -> state of the process with that pid
    monitor,           \* AgentMonitor: position of the loop and the rows it has loaded
    last,              \* the operation that produced this state and its outcome
    logging            \* whether this behaviour records task_events (see LogEvent)

vars == <<tasks, deps, events, slots, runs, active_processes, procs, monitor,
          last, logging>>

----------------------------------------------------------------------------
(* Universe and bounds *)

NULL == "NULL"

Projects == {"p1", "p2"}
TaskIds == {"t1", "t2", "t3"}
SlotIds == {"s1", "s2"}

\* process ids the operating system hands out; SentinelPid is the "unknown"
\* pid a visible-mode launch records when the hand-off file never appears
SentinelPid == 0
Pids == {1, 2}

\* bound on the number of agent_runs rows
MaxRuns == 2
\* bound on the number of task_dependencies rows (SpecGraph)
MaxDeps == 2
\* bound on the number of task_events rows in a behaviour that records them
MaxEvents == 6

\* a tasks table without its CHECK constraint on status
TaskStatusesUnchecked == {"todo", "in-progress", "review", "done", "blocked", "bogus"}

TaskStatuses == {"todo", "in-progress", "done", "blocked", "review"}
SlotStatuses == {"available", "occupied"}
RunStatuses == {"running", "completed", "failed", "cancelled"}
TerminalStatuses == {"completed", "failed", "cancelled"}

\* exit codes are kept as text so that None, 0 and non-zero are comparable
NoneCode == "None"
ExitCodes == {"0", "1"}

\* what the monitor can find at run.output_file
OutputKinds == {"missing", "unreadable", "empty", "json_result", "json_noresult",
                "json_nonobject", "text_error", "text_ok"}

\* the label of each worktree slot (worktree_slots.label)
SlotLabel(s) == IF s = "s1" THEN "wt-beta" ELSE "wt-alpha"
\* ORDER BY label
LabelLess(a, b) == a = "wt-alpha" /\ b = "wt-beta"

----------------------------------------------------------------------------
(* Rows *)

NewTask(project, parent) ==
    [project_id |-> project, parent_task_id |-> parent, status |-> "todo",
     branch_name |-> NULL, worktree_path |-> NULL, completed_at |-> 0]

NewSlot(project, label) ==
    [project_id |-> project, label |-> label, status |-> "available",
     current_task_id |-> NULL]

\* an INSERT that leaves worktree_slot_id out
NewRunWithoutSlot(t, s, pid) ==
    [task_id |-> t, worktree_slot_id |-> NULL, pid |-> pid, status |-> "running",
     exit_code |-> NoneCode, result_summary |-> NULL, completed_at |-> 0]

\* the row launch_agent INSERTs into agent_runs
NewRun(t, s, pid) ==
    [task_id |-> t, worktree_slot_id |-> s, pid |-> pid, status |-> "running",
     exit_code |-> NoneCode, result_summary |-> NULL, completed_at |-> 0]

\* last: the operation, its task (or project) argument, how it ended, the run
\* it returned or handled (0: none), the os.kill calls it made, in order, the
\* task rows a query returned, the slot argument of an assignment and, for a
\* reconciliation, the exit code passed in, the output found and how the
\* notification went, the project and label arguments of a delegation, and
\* the working copies a discovery found, the dependency argument of
\* add_dependency and the status argument of update_task_status, and what a
\* visible-mode launch found at its pid file and the polls it made
Outcome(op, t, res, r) ==
    [op |-> op, arg |-> t, outcome |-> res, run |-> r, kills |-> <<>>, rows |-> {},
     slot |-> NULL, exit_code |-> NULL, output |-> NULL, notify |-> NULL,
     project |-> NULL, label |-> NULL, worktrees |-> <<>>, dep |-> NULL,
     status |-> NULL, pid_file |-> NULL, polls |-> 0]

Kill(pid, sig) == [pid |-> pid, sig |-> sig]

\* no operation has just ended: the previous outcome has been taken note of
Idle == Outcome("idle", NULL, "ok", 0)

\* the outcome of an operation that made the os.kill calls ks
Killing(o, ks) == [o EXCEPT !.kills = ks]

\* the outcome of a query that returned the tasks ids
Returning(o, ids) == [o EXCEPT !.rows = ids]

\* the outcome of an operation called for slot s
OnSlot(o, s) == [o EXCEPT !.slot = s]

\* the outcome of delegate_task called with project_id project and slot_label
\* label (NULL: left out) that selected slot s (NULL: none)
Delegating(o, project, label, s) ==
    [o EXCEPT !.project = project, !.label = label, !.slot = s]

\* the outcome of add_dependency(db, task_id, d)
DependingOn(o, d) == [o EXCEPT !.dep = d]

\* the outcome of update_task_status(db, task_id, st)
SettingStatus(o, st) == [o EXCEPT !.status = st]

\* the outcome of a visible-mode launch that found the pid file as obs says
\* and polled it n times
Waiting(o, obs, n) == [o EXCEPT !.pid_file = obs, !.polls = n]

\* the outcome of a discovery that found the working copies wts, in the
\* order "git worktree list" gives them, and inserted the slots ids
Discovering(o, wts, ids) == [o EXCEPT !.worktrees = wts, !.rows = ids]

\* the outcome of _handle_completion(db, run, exit_code) that found out at
\* run.output_file and whose notification went as notify says
Reconciling(o, exit_code, out, notify) ==
    [o EXCEPT !.exit_code = exit_code, !.output = out, !.notify = notify]

\* _notify_completion: not attempted (no token, no channel), sent, or failed
\* with an exception that is logged
NotifyOutcomes == {"skipped", "sent", "failed"}

\* an event written over the newest row of the log
LogEventOverwriting(ev, t, type, old, new) ==
    IF ~logging THEN ev
    ELSE IF ev = <<>>
         THEN <<[task_id |-> t, event_type |-> type, old_value |-> old, new_value |-> new]>>
         ELSE [ev EXCEPT ![Len(ev)] =
                  [task_id |-> t, event_type |-> type, old_value |-> old, new_value |-> new]]

\* _log_event: task_events is written and never read by any operation, so a
\* behaviour either records it (logging) or leaves it out of the state
LogEvent(ev, t, type, old, new) ==
    IF logging
    THEN Append(ev, [task_id |-> t, event_type |-> type, old_value |-> old, new_value |-> new])
    ELSE ev

EventRoom(k) == logging => Len(events) + k <= MaxEvents

----------------------------------------------------------------------------
(* Queries of core/tasks.py *)

\* a task read without its dependencies
DependsOnNothing(t) == {}

\* get_task(...).depends_on
DependsOn(t) == {d \in TaskIds : <<t, d>> \in deps}

\* get_task(...).subtasks
Subtasks(t) == {c \in DOMAIN tasks : tasks[c].parent_task_id = t}

\* list_tasks(db, project_id, status, parent_task_id=None), as a set of ids;
\* status = NULL stands for "no status filter"
list_tasks(project, status) ==
    {t \in DOMAIN tasks :
        /\ tasks[t].project_id = project
        /\ (status # NULL => tasks[t].status = status)
        /\ tasks[t].parent_task_id = NULL}

\* a ready query that does not look at the dependencies
ReadyWithoutDependencies(project) == list_tasks(project, "todo")

\* get_ready_tasks(db, project_id)
get_ready_tasks(project) ==
    {t \in list_tasks(project, "todo") :
        \/ DependsOn(t) = {}
        \/ \A d \in DependsOn(t) : d \in DOMAIN tasks /\ tasks[d].status = "done"}

\* a blocked query that takes every dependency for an open one
BlockedWithDependencies(project) ==
    {t \in list_tasks(project, "todo") : DependsOn(t) # {}}

\* get_blocked_tasks(db, project_id)
get_blocked_tasks(project) ==
    {t \in list_tasks(project, "todo") :
        \E d \in DependsOn(t) : d \in DOMAIN tasks /\ tasks[d].status # "done"}

\* an UPDATE that leaves a task that is done as it is
StatusUpdatedUnlessDone(tk, t, st) ==
    IF tk[t].status = "done" THEN tk
    ELSE [tk EXCEPT ![t].status = st]

\* update_task_status on an existing task: the row after the UPDATE
StatusUpdated(tk, t, st) ==
    [tk EXCEPT ![t].status = st,
               ![t].completed_at =
                   IF st = "done" /\ tk[t].status # "done" THEN 1 ELSE @]

----------------------------------------------------------------------------
(* Queries of core/agents.py *)

\* the same query with a status no run ever has
RunningRunsOfPending(t) ==
    {r \in DOMAIN runs : runs[r].task_id = t /\ runs[r].status = "pending"}

\* the same query without its status filter
RunningRunsOfAnyStatus(t) == {r \in DOMAIN runs : runs[r].task_id = t}

\* SELECT * FROM agent_runs WHERE task_id = ? AND status = 'running'
RunningRunsOf(t) ==
    {r \in DOMAIN runs : runs[r].task_id = t /\ runs[r].status = "running"}

\* the same query without its WHERE clause on the task
SlotsOfTaskOrOccupied(sl, t) == {s \in DOMAIN sl : sl[s].status = "occupied"}

\* SELECT * FROM worktree_slots WHERE current_task_id = ?
SlotsOfTask(sl, t) == {s \in DOMAIN sl : sl[s].current_task_id = t}

\* get_slot_by_label(db, project_id, label)
SlotsByLabel(project, label) ==
    {s \in DOMAIN slots : slots[s].project_id = project /\ slots[s].label = label}

\* a selection that takes any available slot of the project, in no order
AnyAvailable(project) ==
    {s \in DOMAIN slots : slots[s].project_id = project /\ slots[s].status = "available"}

\* list_worktree_slots(db, project_id, status="available")[0]: the available
\* slots of the project that no other available slot precedes in label order
FirstAvailable(project) ==
    LET avail == {s \in DOMAIN slots :
                     slots[s].project_id = project /\ slots[s].status = "available"}
    IN  {s \in avail : \A o \in avail : ~LabelLess(slots[o].label, slots[s].label)}

\* an assignment whose UPDATE of worktree_slots is undone
SlotAssignedRolledBack(sl, t, s) == sl

\* the rows after assign_task_to_slot's two UPDATEs
SlotAssigned(sl, t, s) ==
    [sl EXCEPT ![s].status = "occupied", ![s].current_task_id = t]

TaskAssigned(tk, t, s) ==
    [tk EXCEPT ![t].worktree_path = s, ![t].branch_name = s]

\* an UPDATE that resets the status and keeps the occupant
SlotReleasedKeepingTask(sl, s) == [sl EXCEPT ![s].status = "available"]

\* an UPDATE of worktree_slots without its WHERE clause
SlotReleasedAll(sl, s) ==
    [x \in DOMAIN sl |-> [sl[x] EXCEPT !.status = "available", !.current_task_id = NULL]]

\* the row after release_slot's UPDATE
SlotReleased(sl, s) ==
    [sl EXCEPT ![s].status = "available", ![s].current_task_id = NULL]

\* a pid the operating system can give to a new process: no live process and
\* no unreaped child (a Popen handle that was never polled) holds it
FreePids == {p \in Pids : procs[p] # "alive" /\ p \notin active_processes}

\* the outcomes of os.kill(pid, SIGTERM) for a recorded pid: delivered to the
\* live (or unreaped) process; otherwise the pid is gone (ProcessLookupError)
\* or has been reused by a process of this user (delivered) or of another
\* user (PermissionError)
KillOutcomes(pid) ==
    IF procs[pid] = "alive" \/ pid \in active_processes
    THEN {"delivered"}
    ELSE {"delivered", "esrch", "eperm"}

\* sequence of the elements of a set of run ids, ascending
RECURSIVE SortedSeq(_)
SortedSeq(S) ==
    IF S = {} THEN <<>>
    ELSE LET m == CHOOSE x \in S : \A y \in S : x <= y
         IN  <<m>> \o SortedSeq(S \ {m})

----------------------------------------------------------------------------
(* Slot pool: core/agents.py *)

\* register_worktree_slot: the path is UNIQUE, so a slot is registered once
RegisterSlot(s, project) ==
    /\ last = Idle
    /\ s \notin DOMAIN slots
    /\ slots' = slots @@ (s :> NewSlot(project, SlotLabel(s)))
    /\ last' = Outcome("register", NULL, "ok", 0)
    /\ UNCHANGED <<tasks, deps, events, runs, active_processes, procs, monitor,
                   logging>>

\* a discovery that takes no path for registered
ExistingPathsNone(sl, project) == {}

\* discover_and_register_worktrees, lines 105-109: the paths registered for
\* the project (a slot is identified by its path)
ExistingPaths(sl, project) == {s \in DOMAIN sl : sl[s].project_id = project}

\* discover_and_register_worktrees, lines 111-124: the loop over the working
\* copies wts left, with existing read before the loop. register_worktree_slot
\* commits each INSERT; the path is UNIQUE over all projects, so the INSERT
\* of a path that some row already holds raises IntegrityError and ends the
\* loop with the earlier rows kept
RECURSIVE Discovered(_, _, _, _, _)
Discovered(sl, project, existing, wts, ids) ==
    IF wts = <<>> THEN [slots |-> sl, registered |-> ids, outcome |-> "ok"]
    ELSE LET w == Head(wts)
         IN  IF w \in existing THEN Discovered(sl, project, existing, Tail(wts), ids)
             ELSE IF w \in DOMAIN sl
                  THEN [slots |-> sl, registered |-> ids, outcome |-> "integrity_error"]
                  ELSE Discovered(sl @@ (w :> NewSlot(project, SlotLabel(w))), project,
                                  existing, Tail(wts), ids \cup {w})

\* discover_and_register_worktrees(db, project_id, repo_path) where the
\* repository has the working copies wts (none bare)
DiscoverWorktrees(project, wts) ==
    /\ last = Idle
    /\ LET res == Discovered(slots, project, ExistingPaths(slots, project), wts, {})
       IN  /\ slots' = res.slots
           /\ last' = Discovering(Outcome("discover", project, res.outcome, 0),
                                  wts, res.registered)
    /\ UNCHANGED <<tasks, deps, events, runs, active_processes, procs, monitor,
                   logging>>

\* a test against a status value no slot ever has
SlotOccupiedBusy(s) == slots[s].status = "busy"

\* assign_task_to_slot: slot.status == "occupied"
SlotOccupied(s) == slots[s].status = "occupied"

\* assign_task_to_slot(db, task_id, slot_id)
AssignTask(t, s) ==
    /\ last = Idle
    /\ EventRoom(1)
    /\ IF s \notin DOMAIN slots THEN
            /\ last' = OnSlot(Outcome("assign", t, "slot_not_found", 0), s)
            /\ UNCHANGED <<tasks, slots, events>>
       ELSE IF SlotOccupied(s) THEN
            /\ last' = OnSlot(Outcome("assign", t, "already_occupied", 0), s)
            /\ UNCHANGED <<tasks, slots, events>>
       ELSE IF t \notin DOMAIN tasks THEN
            /\ last' = OnSlot(Outcome("assign", t, "task_not_found", 0), s)
            /\ UNCHANGED <<tasks, slots, events>>
       ELSE
            /\ slots' = SlotAssigned(slots, t, s)
            /\ tasks' = TaskAssigned(tasks, t, s)
            /\ events' = LogEvent(events, t, "assigned_to_slot", NULL, slots[s].label)
            /\ last' = OnSlot(Outcome("assign", t, "ok", 0), s)
    /\ UNCHANGED <<deps, runs, active_processes, procs, monitor, logging>>

----------------------------------------------------------------------------
(* Launch: core/agents.py *)

\* The part of launch_agent after its two checks, from the rows tk, sl, ev
\* (delegate_task calls it on the rows its assignment has just written):
\* start the process, move a todo task to in-progress, insert the run.
\*   o         the outcome the caller reports once the run is inserted
\*   terminal  visible mode (_launch_in_terminal) or background mode (Popen)
\*   pid       the process id the launch captures
\*   s         the row that "WHERE current_task_id = ?" returned first
StartRun(o, tk, sl, ev, t, s, terminal, pid) ==
    LET tk1 == IF tk[t].status = "todo" THEN StatusUpdated(tk, t, "in-progress") ELSE tk
        ev1 == IF tk[t].status = "todo"
               THEN LogEvent(ev, t, "status_changed", "todo", "in-progress")
               ELSE ev
        runs1 == Append(runs, NewRun(t, s, pid))
    IN  /\ Len(runs) < MaxRuns
        /\ IF terminal
           THEN /\ pid \in FreePids \cup {SentinelPid}
                /\ active_processes' = active_processes
           ELSE /\ pid \in FreePids
                /\ active_processes' = active_processes \cup {pid}
        /\ procs' = IF pid = SentinelPid THEN procs ELSE [procs EXCEPT ![pid] = "alive"]
        /\ tasks' = tk1
        /\ slots' = sl
        /\ runs' = runs1
        /\ events' = LogEvent(ev1, t, "agent_launched", NULL, "PID")
        \* SELECT * FROM agent_runs WHERE pid = ? AND status = 'running' (first row)
        /\ \E ret \in {r \in DOMAIN runs1 : runs1[r].pid = pid /\ runs1[r].status = "running"} :
               last' = [o EXCEPT !.run = ret]

\* launch_agent(db, task_id, ..., terminal)
LaunchAgent(t, terminal) ==
    /\ last = Idle
    /\ EventRoom(2)
    /\ IF t \notin DOMAIN tasks THEN
            /\ last' = Outcome("launch", t, "task_not_found", 0)
            /\ UNCHANGED <<tasks, slots, events, runs, active_processes, procs>>
       ELSE IF SlotsOfTask(slots, t) = {} THEN
            /\ last' = Outcome("launch", t, "not_assigned", 0)
            /\ UNCHANGED <<tasks, slots, events, runs, active_processes, procs>>
       ELSE IF RunningRunsOf(t) # {} THEN
            /\ last' = Outcome("launch", t, "already_running", 0)
            /\ UNCHANGED <<tasks, slots, events, runs, active_processes, procs>>
       ELSE
            \* starting the process raises (the agent command cannot be run)
            \/ /\ last' = Outcome("launch", t, "spawn_failed", 0)
               /\ UNCHANGED <<tasks, slots, events, runs, active_processes, procs>>
            \/ \E s \in SlotsOfTask(slots, t), pid \in Pids \cup {SentinelPid} :
                    StartRun(Outcome("launch", t, "ok", 0), tasks, slots, events, t, s,
                             terminal, pid)
    /\ UNCHANGED <<deps, monitor, logging>>

\* _launch_in_terminal, line 520: range(50)
PollLimit == 50

\* a wait that gives up at the first poll that cannot read a number
PolledOnce(obs, i) ==
    IF i >= obs.valid THEN [pid |-> obs.pid, polls |-> i]
    ELSE [pid |-> SentinelPid, polls |-> i]

\* _launch_in_terminal, lines 520-530: the polls from the i-th on. The pid
\* file is absent before poll obs.appears, exists without a number in it
\* (empty, or unreadable) from then until poll obs.valid, and holds obs.pid
\* from poll obs.valid on; the result is the pid returned and the number of
\* polls made
RECURSIVE Polled(_, _)
Polled(obs, i) ==
    IF i > PollLimit THEN [pid |-> SentinelPid, polls |-> PollLimit]
    ELSE IF i >= obs.appears /\ i >= obs.valid THEN [pid |-> obs.pid, polls |-> i]
    ELSE Polled(obs, i + 1)

\* launch_agent(db, task_id, ..., terminal=True) where the pid file behaves
\* as obs says
LaunchInTerminal(t, obs) ==
    /\ last = Idle
    /\ EventRoom(2)
    /\ IF t \notin DOMAIN tasks THEN
            /\ last' = Outcome("launch", t, "task_not_found", 0)
            /\ UNCHANGED <<tasks, slots, events, runs, active_processes, procs>>
       ELSE IF SlotsOfTask(slots, t) = {} THEN
            /\ last' = Outcome("launch", t, "not_assigned", 0)
            /\ UNCHANGED <<tasks, slots, events, runs, active_processes, procs>>
       ELSE IF RunningRunsOf(t) # {} THEN
            /\ last' = Outcome("launch", t, "already_running", 0)
            /\ UNCHANGED <<tasks, slots, events, runs, active_processes, procs>>
       ELSE
            LET res == Polled(obs, 1)
            IN  \E s \in SlotsOfTask(slots, t) :
                    StartRun(Waiting(Outcome("launch", t, "ok", 0), obs, res.polls),
                             tasks, slots, events, t, s, TRUE, res.pid)
    /\ UNCHANGED <<deps, monitor, logging>>

----------------------------------------------------------------------------
(* Delegation: core/agents.py *)

\* delegate_task(db, task_id, ..., project_id, slot_label, terminal);
\* project = NULL and label = NULL stand for the arguments left out
DelegateTask(t, project, label, terminal) ==
    /\ last = Idle
    /\ EventRoom(3)
    /\ IF t \notin DOMAIN tasks THEN
            /\ last' = Delegating(Outcome("delegate", t, "task_not_found", 0),
                                  project, label, NULL)
            /\ UNCHANGED <<tasks, slots, events, runs, active_processes, procs>>
       ELSE IF RunningRunsOf(t) # {} THEN
            /\ last' = Delegating(Outcome("delegate", t, "already_running", 0),
                                  project, label, NULL)
            /\ UNCHANGED <<tasks, slots, events, runs, active_processes, procs>>
       ELSE
         LET proj == IF project # NULL THEN project ELSE tasks[t].project_id
             cands == IF label # NULL THEN SlotsByLabel(proj, label) ELSE FirstAvailable(proj)
         IN  IF cands = {} THEN
                  /\ last' = Delegating(
                                 Outcome("delegate", t,
                                         IF label # NULL THEN "slot_not_found"
                                         ELSE "no_available_slot", 0),
                                 project, label, NULL)
                  /\ UNCHANGED <<tasks, slots, events, runs, active_processes, procs>>
             ELSE \E s \in cands :
                  IF slots[s].status = "occupied" THEN
                      /\ last' = Delegating(Outcome("delegate", t, "already_occupied", 0),
                                            project, label, s)
                      /\ UNCHANGED <<tasks, slots, events, runs, active_processes, procs>>
                  ELSE
                    LET sl1 == SlotAssigned(slots, t, s)
                        tk1 == TaskAssigned(tasks, t, s)
                        ev1 == LogEvent(events, t, "assigned_to_slot", NULL, slots[s].label)
                    IN  \* launch_agent raises after the assignment was committed
                        \/ /\ slots' = sl1
                           /\ tasks' = tk1
                           /\ events' = ev1
                           /\ last' = Delegating(Outcome("delegate", t, "launch_failed", 0),
                                                 project, label, s)
                           /\ UNCHANGED <<runs, active_processes, procs>>
                        \/ \E s2 \in SlotsOfTask(sl1, t), pid \in Pids \cup {SentinelPid} :
                                StartRun(Delegating(Outcome("delegate", t, "ok", 0),
                                                    project, label, s),
                                         tk1, sl1, ev1, t, s2, terminal, pid)
    /\ UNCHANGED <<deps, monitor, logging>>

----------------------------------------------------------------------------
(* Cancellation: core/agents.py *)

\* the row "ORDER BY started_at DESC LIMIT 1" returns: started_at grows with
\* the id, so it is the running run of the task with the greatest id
LatestRunning(t) == CHOOSE r \in RunningRunsOf(t) : \A o \in RunningRunsOf(t) : o <= r

\* the agent_runs row after cancel_agent's UPDATE
RunCancelled(rs, r) ==
    [rs EXCEPT ![r].status = "cancelled", ![r].completed_at = @ + 1]

\* popping a handle drops the last reference to an exited child's Popen, so
\* the child is reaped and its pid is free again
Reaped(pr, pid) ==
    IF pr[pid] \in {"exit0", "exit1"} THEN [pr EXCEPT ![pid] = "none"] ELSE pr

\* cancel_agent(db, task_id)
CancelAgent(t) ==
    /\ last = Idle
    /\ EventRoom(1)
    /\ IF RunningRunsOf(t) = {} THEN
            /\ last' = Outcome("cancel", t, "none", 0)
            /\ UNCHANGED <<runs, slots, events, active_processes, procs>>
       ELSE
         LET r == LatestRunning(t)
             pid == runs[r].pid
         IN  IF pid = SentinelPid THEN
                  \* "if run.pid:" is false: no signal, no pop
                  /\ runs' = RunCancelled(runs, r)
                  /\ events' = LogEvent(events, t, "agent_cancelled", "PID", NULL)
                  /\ slots' = SlotReleased(slots, runs[r].worktree_slot_id)
                  /\ last' = Outcome("cancel", t, "ok", r)
                  /\ UNCHANGED <<active_processes, procs>>
             ELSE \E kill \in KillOutcomes(pid) :
                  IF kill = "eperm" THEN
                      \* PermissionError is not caught: cancel_agent raises here
                      /\ last' = Killing(Outcome("cancel", t, "permission_error", r),
                                         <<Kill(pid, "SIGTERM")>>)
                      /\ UNCHANGED <<runs, slots, events, active_processes, procs>>
                  ELSE
                      \* delivered, or ProcessLookupError ("Already exited")
                      /\ active_processes' = active_processes \ {pid}
                      /\ procs' = Reaped(procs, pid)
                      /\ runs' = RunCancelled(runs, r)
                      /\ events' = LogEvent(events, t, "agent_cancelled", "PID", NULL)
                      /\ slots' = SlotReleased(slots, runs[r].worktree_slot_id)
                      /\ last' = Killing(Outcome("cancel", t,
                                                 IF kill = "esrch" THEN "ok_already_exited"
                                                 ELSE "ok", r),
                                         <<Kill(pid, "SIGTERM")>>)
    /\ UNCHANGED <<tasks, deps, monitor, logging>>

----------------------------------------------------------------------------
(* The operating system *)

\* a live agent process exits with the given code; without a handle nothing
\* keeps the exit code and the pid is free at once
ProcessExit(pid, code) ==
    /\ last = Idle
    /\ procs[pid] = "alive"
    /\ procs' = [procs EXCEPT ![pid] =
                    IF pid \in active_processes
                    THEN (IF code = "0" THEN "exit0" ELSE "exit1")
                    ELSE "none"]
    /\ last' = Outcome("process_exit", NULL, code, 0)
    /\ UNCHANGED <<tasks, deps, events, slots, runs, active_processes, monitor, logging>>

----------------------------------------------------------------------------
(* AgentMonitor: core/agents.py *)

\* a heuristic that overrides the exit code passed in
IfNoneOverride(code, default) == default

\* "if exit_code is None: exit_code = ..."
IfNone(code, default) == IF code = NoneCode THEN default ELSE code

\* the output file taken as plain text whatever it holds
ReadOutputRaw(exit_code, out) ==
    CASE out = "missing" ->
            [exit_code |-> exit_code, result_summary |-> NULL]
      [] out = "unreadable" ->
            [exit_code |-> IfNone(exit_code, "1"), result_summary |-> "Error reading output"]
      [] out = "empty" ->
            [exit_code |-> IfNone(exit_code, "1"), result_summary |-> "(empty output)"]
      [] out = "text_error" ->
            [exit_code |-> IfNone(exit_code, "1"), result_summary |-> "content"]
      [] OTHER ->
            [exit_code |-> IfNone(exit_code, "0"), result_summary |-> "content"]

\* a reading that takes every output for a success when no exit code is known
ReadOutputNoHeuristic(exit_code, out) ==
    [exit_code |-> IfNone(exit_code, "0"),
     result_summary |-> IF out = "missing" THEN NULL ELSE "content"]

\* _handle_completion, lines 719-742: the summary and the exit code after
\* reading run.output_file, from the exit code passed in and the file found
ReadOutput(exit_code, out) ==
    CASE out = "missing" ->
            [exit_code |-> exit_code, result_summary |-> NULL]
      [] out = "unreadable" ->
            [exit_code |-> IfNone(exit_code, "1"), result_summary |-> "Error reading output"]
      [] out = "empty" ->
            [exit_code |-> IfNone(exit_code, "1"), result_summary |-> "(empty output)"]
      [] out = "json_result" ->
            [exit_code |-> IfNone(exit_code, "0"), result_summary |-> "result"]
      [] out = "json_noresult" ->
            [exit_code |-> IfNone(exit_code, "0"), result_summary |-> "content"]
      [] out = "json_nonobject" ->
            \* data.get raises AttributeError, caught by "except Exception"
            [exit_code |-> IfNone(exit_code, "1"), result_summary |-> "Error reading output"]
      [] out = "text_error" ->
            [exit_code |-> IfNone(exit_code, "1"), result_summary |-> "content"]
      [] out = "text_ok" ->
            [exit_code |-> IfNone(exit_code, "0"), result_summary |-> "content"]

\* a test that takes only an unknown exit code for a failure
CompletionStatusOnlyUnknown(exit_code) ==
    IF exit_code = NoneCode THEN "failed" ELSE "completed"

\* _handle_completion, lines 720 and 744-745: "if exit_code and exit_code != 0"
CompletionStatus(exit_code) ==
    IF exit_code # NoneCode /\ exit_code # "0" THEN "failed" ELSE "completed"

\* the agent_runs row after _handle_completion's UPDATE ... WHERE id = ?
RunCompleted(rs, r, status, res) ==
    [rs EXCEPT ![r].status = status,
               ![r].exit_code = res.exit_code,
               ![r].result_summary = res.result_summary,
               ![r].completed_at = @ + 1]

\* a reconciliation that closes the task itself
CompletedTaskStatusDone == "done"

\* _handle_completion, lines 755-757: the status a completed run gives its
\* task ("not auto-done: user reviews first")
CompletedTaskStatus == "review"

\* _handle_completion(db, run, exit_code) on the loaded row r; the
\* notification comes after the commit and changes nothing that is stored
HandleCompletion(r, exit_code, out, ks, notify) ==
    LET run == runs[r]
        res == ReadOutput(exit_code, out)
        status == CompletionStatus(res.exit_code)
        t == run.task_id
    IN  /\ runs' = RunCompleted(runs, r, status, res)
        /\ IF status = "completed"
           THEN /\ tasks' = IF t \in DOMAIN tasks
                            THEN StatusUpdated(tasks, t, CompletedTaskStatus) ELSE tasks
                /\ events' = LogEvent(
                                IF t \in DOMAIN tasks
                                THEN LogEvent(events, t, "status_changed",
                                              tasks[t].status, CompletedTaskStatus)
                                ELSE events,
                                t, "agent_completed", NULL, res.result_summary)
           ELSE /\ tasks' = tasks
                /\ events' = LogEvent(events, t, "agent_failed", NULL, res.result_summary)
        /\ slots' = SlotReleased(slots, run.worktree_slot_id)
        /\ last' = Reconciling(Killing(Outcome("reconcile", t, status, r), ks),
                                exit_code, out, notify)

\* AgentMonitor after start(): the thread is at the loop test of _run with
\* the stop event clear (pc: idle, checking, or stopped once _run returned)
MonitorStarted == [pc |-> "idle", rows |-> <<>>, stop |-> FALSE]

\* _is_pid_alive(pid) can return alive: os.kill(0, 0) signals the caller's own
\* process group and succeeds; a live process answers; a pid whose process is
\* gone answers only if another process has taken it since (os.kill succeeds
\* or raises PermissionError), and is reported dead otherwise
PidProbes(pid, alive) ==
    IF pid = SentinelPid \/ procs[pid] = "alive" THEN alive ELSE TRUE

\* the monitor thread with the rows rows of its iteration left to check: it
\* is in the "for row in rows" loop, or back at the loop test of _run
Iterating(rows) ==
    [monitor EXCEPT !.pc = IF rows = <<>> THEN "idle" ELSE "checking", !.rows = rows]

\* _run and _check_agents, lines 682-686: the stop event is not set, so the
\* iteration starts and loads the rows with status running
MonitorLoad ==
    /\ last = Idle
    /\ monitor.pc = "idle"
    /\ ~monitor.stop
    /\ monitor' = Iterating(SortedSeq({r \in DOMAIN runs : runs[r].status = "running"}))
    /\ last' = Outcome("monitor_load", NULL, "ok", 0)
    /\ UNCHANGED <<tasks, deps, events, slots, runs, active_processes, procs, logging>>

\* a notification failure that leaves _handle_completion as an exception:
\* the rest of the iteration is skipped
RowsAfterPropagating(rest, notify) == IF notify = "failed" THEN <<>> ELSE rest

\* the rows the iteration goes on with after a run was handled:
\* _notify_completion catches every Exception
RowsAfter(rest, notify) == rest

\* _check_agents, lines 687-699, for the next loaded row; the row was read
\* at load time, and pid, task and slot of a run never change afterwards.
\* out is what is found at run.output_file, notify how the notification of
\* a completion goes
MonitorCheck(out, notify) ==
    /\ last = Idle
    /\ monitor.pc = "checking"
    /\ EventRoom(2)
    /\ LET r == Head(monitor.rows)
           pid == runs[r].pid
           rest == Tail(monitor.rows)
       IN  IF pid \in active_processes THEN
                  IF procs[pid] = "alive" THEN
                      \* proc.poll() is None: still running
                      /\ monitor' = Iterating(rest)
                      /\ last' = Outcome("monitor_check", runs[r].task_id, "still_running", r)
                      /\ UNCHANGED <<tasks, events, slots, runs, active_processes, procs>>
                  ELSE
                      /\ monitor' = Iterating(RowsAfter(rest, notify))
                      /\ active_processes' = active_processes \ {pid}
                      /\ procs' = [procs EXCEPT ![pid] = "none"]
                      /\ HandleCompletion(r, IF procs[pid] = "exit0" THEN "0" ELSE "1",
                                          out, <<>>, notify)
           ELSE
                  \* no handle: _is_pid_alive(run.pid), a probe with signal 0
                  \/ /\ PidProbes(pid, TRUE)
                     /\ monitor' = Iterating(rest)
                     /\ last' = Killing(Outcome("monitor_check", runs[r].task_id,
                                                "still_running", r),
                                        <<Kill(pid, "0")>>)
                     /\ UNCHANGED <<tasks, events, slots, runs, active_processes, procs>>
                  \/ /\ PidProbes(pid, FALSE)
                     /\ monitor' = Iterating(RowsAfter(rest, notify))
                     /\ HandleCompletion(r, NoneCode, out, <<Kill(pid, "0")>>, notify)
                     /\ UNCHANGED <<active_processes, procs>>
    /\ UNCHANGED <<deps, logging>>

\* an exception that leaves the monitor thread: the loop of _run is over
PcAfterUncaughtException == "stopped"

\* where the monitor thread is after an iteration raised: _run catches every
\* Exception, logs it and goes on to wait and to the loop test
PcAfterException == "idle"

\* an iteration of the monitor raises (the database cannot be opened or
\* read, or a statement of _handle_completion fails): what the iteration
\* had not committed is rolled back when _check_agents closes the
\* connection, the rows left are dropped; a handle that was polled and
\* popped before the failure is gone, and its child reaped
MonitorRaise ==
    /\ last = Idle
    /\ \/ /\ monitor.pc = "idle"
          /\ ~monitor.stop
          /\ UNCHANGED <<active_processes, procs>>
       \/ /\ monitor.pc = "checking"
          /\ LET pid == runs[Head(monitor.rows)].pid
             IN  IF pid \in active_processes
                 THEN /\ procs[pid] # "alive"
                      /\ active_processes' = active_processes \ {pid}
                      /\ procs' = [procs EXCEPT ![pid] = "none"]
                 ELSE /\ PidProbes(pid, FALSE)
                      /\ UNCHANGED <<active_processes, procs>>
    /\ monitor' = [monitor EXCEPT !.pc = PcAfterException, !.rows = <<>>]
    /\ last' = Outcome("monitor_raise", NULL, "logged", 0)
    /\ UNCHANGED <<tasks, deps, events, slots, runs, logging>>

\* AgentMonitor.stop(): set the stop event (and wait up to 10 s for the thread)
MonitorStop ==
    /\ last = Idle
    /\ monitor' = [monitor EXCEPT !.stop = TRUE]
    /\ last' = Outcome("monitor_stop", NULL, "ok", 0)
    /\ UNCHANGED <<tasks, deps, events, slots, runs, active_processes, procs, logging>>

\* AgentMonitor.stop() with its join: the stop event is set; a thread that
\* waits between two iterations wakes, leaves the loop and is joined; a
\* thread inside an iteration that outlasts the 10 s of the join is still
\* alive when stop() returns
MonitorStopJoin ==
    /\ last = Idle
    /\ IF monitor.pc = "checking"
       THEN /\ monitor' = [monitor EXCEPT !.stop = TRUE]
            /\ last' = Outcome("monitor_stop", NULL, "join_timeout", 0)
       ELSE /\ monitor' = [monitor EXCEPT !.stop = TRUE, !.pc = "stopped"]
            /\ last' = Outcome("monitor_stop", NULL, "joined", 0)
    /\ UNCHANGED <<tasks, deps, events, slots, runs, active_processes, procs, logging>>

\* _run: the loop test finds the stop event set and the thread ends
MonitorExit ==
    /\ last = Idle
    /\ monitor.pc = "idle"
    /\ monitor.stop
    /\ monitor' = [monitor EXCEPT !.pc = "stopped"]
    /\ last' = Outcome("monitor_exit", NULL, "ok", 0)
    /\ UNCHANGED <<tasks, deps, events, slots, runs, active_processes, procs, logging>>

\* AgentMonitor.start(): nothing when the thread is alive, else clear the
\* stop event and start a thread
MonitorStart ==
    /\ last = Idle
    /\ IF monitor.pc # "stopped"
       THEN /\ monitor' = monitor
            /\ last' = Outcome("monitor_start", NULL, "already_alive", 0)
       ELSE /\ monitor' = MonitorStarted
            /\ last' = Outcome("monitor_start", NULL, "ok", 0)
    /\ UNCHANGED <<tasks, deps, events, slots, runs, active_processes, procs, logging>>

\* the orchestrator process ends and is started again on the same database:
\* the handle registry is empty, the children that had exited are reaped,
\* the agents still running go on, a new monitor thread starts
Restart ==
    /\ last = Idle
    /\ active_processes' = {}
    /\ procs' = [p \in Pids |-> Reaped(procs, p)[p]]
    /\ monitor' = MonitorStarted
    /\ last' = Outcome("restart", NULL, "ok", 0)
    /\ UNCHANGED <<tasks, deps, events, slots, runs, logging>>

----------------------------------------------------------------------------
(* Task graph: core/tasks.py *)

\* update_task_status(db, task_id, status); a status outside the CHECK
\* constraint of the tasks table makes the UPDATE raise IntegrityError
UpdateTaskStatus(t, st) ==
    /\ last = Idle
    /\ EventRoom(1)
    /\ IF t \notin DOMAIN tasks THEN
            /\ last' = SettingStatus(Outcome("update_status", t, "task_not_found", 0), st)
            /\ UNCHANGED <<tasks, events>>
       ELSE IF st \notin TaskStatuses THEN
            /\ last' = SettingStatus(Outcome("update_status", t, "invalid_status", 0), st)
            /\ UNCHANGED <<tasks, events>>
       ELSE
            /\ tasks' = StatusUpdated(tasks, t, st)
            /\ events' = LogEvent(events, t, "status_changed", tasks[t].status, st)
            /\ last' = SettingStatus(Outcome("update_status", t, "ok", 0), st)
    /\ UNCHANGED <<deps, slots, runs, active_processes, procs, monitor, logging>>

\* the task and all tasks below it (delete_task deletes subtasks first)
RECURSIVE WithDescendants(_)
WithDescendants(S) ==
    LET next == S \cup {c \in DOMAIN tasks : tasks[c].parent_task_id \in S}
    IN  IF next = S THEN S ELSE WithDescendants(next)

\* a row of worktree_slots or agent_runs references the task (foreign keys)
Referenced(t) ==
    \/ \E s \in DOMAIN slots : slots[s].current_task_id = t
    \/ \E r \in DOMAIN runs : runs[r].task_id = t

\* create_task(db, title, project_id, parent_task_id=parent, depends_on=D);
\* t is the id _unique_id returns: one that no stored task has.
\* When the operation raises, the rows it had already written are committed
\* by the next commit on the same connection (the long-lived connection of
\* the tool server) or are lost with the connection (get_db in the CLI)
CreateTask(t, project, parent, D) ==
    /\ last = Idle
    /\ t \notin DOMAIN tasks
    /\ EventRoom(1)
    /\ IF parent # NULL /\ parent \notin DOMAIN tasks THEN
            \* FOREIGN KEY on parent_task_id: the INSERT into tasks fails
            /\ last' = Outcome("create", t, "integrity_error", 0)
            /\ UNCHANGED <<tasks, deps, events>>
       ELSE IF D \subseteq DOMAIN tasks THEN
            /\ Cardinality(deps) + Cardinality(D) <= MaxDeps
            /\ tasks' = tasks @@ (t :> NewTask(project, parent))
            /\ deps' = deps \cup {<<t, d>> : d \in D}
            /\ events' = LogEvent(events, t, "created", NULL, "todo")
            /\ last' = Outcome("create", t, "ok", 0)
       ELSE
            \* FOREIGN KEY on depends_on_task_id: the INSERT of a missing
            \* dependency fails after the task row and the dependencies
            \* listed before it were written; no event, no commit
            /\ last' = Outcome("create", t, "integrity_error", 0)
            /\ events' = events
            /\ \/ \E K \in SUBSET (D \cap DOMAIN tasks) :
                        /\ Cardinality(deps) + Cardinality(K) <= MaxDeps
                        /\ tasks' = tasks @@ (t :> NewTask(project, parent))
                        /\ deps' = deps \cup {<<t, d>> : d \in K}
               \/ UNCHANGED <<tasks, deps>>
    /\ UNCHANGED <<slots, runs, active_processes, procs, monitor, logging>>

\* add_dependency(db, task_id, depends_on_id)
AddDependency(t, d) ==
    /\ last = Idle
    /\ EventRoom(1)
    /\ IF t \notin DOMAIN tasks THEN
            /\ last' = DependingOn(Outcome("add_dependency", t, "task_not_found", 0), d)
            /\ UNCHANGED <<deps, events>>
       ELSE IF d \notin DOMAIN tasks THEN
            /\ last' = DependingOn(Outcome("add_dependency", t, "dependency_not_found", 0), d)
            /\ UNCHANGED <<deps, events>>
       ELSE IF d \in DependsOn(t) THEN
            /\ last' = DependingOn(Outcome("add_dependency", t, "already_exists", 0), d)
            /\ UNCHANGED <<deps, events>>
       ELSE
            /\ Cardinality(deps) < MaxDeps
            /\ deps' = deps \cup {<<t, d>>}
            /\ events' = LogEvent(events, t, "dependency_added", NULL, d)
            /\ last' = DependingOn(Outcome("add_dependency", t, "ok", 0), d)
    /\ UNCHANGED <<tasks, slots, runs, active_processes, procs, monitor, logging>>

\* remove_dependency(db, task_id, depends_on_id)
RemoveDependency(t, d) ==
    /\ last = Idle
    /\ EventRoom(1)
    /\ IF t \notin DOMAIN tasks THEN
            /\ last' = Outcome("remove_dependency", t, "task_not_found", 0)
            /\ UNCHANGED <<deps, events>>
       ELSE
            /\ deps' = deps \ {<<t, d>>}
            /\ events' = LogEvent(events, t, "dependency_removed", d, NULL)
            /\ last' = Outcome("remove_dependency", t, "ok", 0)
    /\ UNCHANGED <<tasks, slots, runs, active_processes, procs, monitor, logging>>

\* the event rows that remain after DELETE FROM task_events for the tasks in gone
RECURSIVE SelectEvents(_, _)
SelectEvents(ev, gone) ==
    IF ev = <<>> THEN <<>>
    ELSE IF Head(ev).task_id \in gone THEN SelectEvents(Tail(ev), gone)
    ELSE <<Head(ev)>> \o SelectEvents(Tail(ev), gone)

\* delete_task(db, task_id), for a task that no slot and no run references
\* (nor any task below it): the DELETEs then all succeed
DeleteTask(t) ==
    /\ last = Idle
    /\ IF t \notin DOMAIN tasks THEN
            /\ last' = Outcome("delete", t, "task_not_found", 0)
            /\ UNCHANGED <<tasks, deps, events>>
       ELSE
         LET gone == WithDescendants({t})
         IN  /\ \A x \in gone : ~Referenced(x)
             /\ tasks' = [x \in DOMAIN tasks \ gone |-> tasks[x]]
             /\ deps' = {e \in deps : e[1] \notin gone /\ e[2] \notin gone}
             /\ events' = SelectEvents(events, gone)
             /\ last' = Outcome("delete", t, "ok", 0)
    /\ UNCHANGED <<slots, runs, active_processes, procs, monitor, logging>>

\* get_ready_tasks(db, project_id), called by the "ready" command and tool
GetReadyTasks(project) ==
    /\ last = Idle
    /\ last' = Returning(Outcome("get_ready_tasks", project, "ok", 0),
                         get_ready_tasks(project))
    /\ UNCHANGED <<tasks, deps, events, slots, runs, active_processes, procs,
                   monitor, logging>>

\* get_blocked_tasks(db, project_id), called by a client of core/tasks.py
GetBlockedTasks(project) ==
    /\ last = Idle
    /\ last' = Returning(Outcome("get_blocked_tasks", project, "ok", 0),
                         get_blocked_tasks(project))
    /\ UNCHANGED <<tasks, deps, events, slots, runs, active_processes, procs,
                   monitor, logging>>

----------------------------------------------------------------------------
(* Specifications *)

\* an empty database and a freshly started orchestrator
InitEmpty ==
    /\ tasks = <<>>
    /\ deps = {}
    /\ events = <<>>
    /\ slots = <<>>
    /\ runs = <<>>
    /\ active_processes = {}
    /\ procs = [p \in Pids |-> "none"]
    /\ monitor = MonitorStarted
    /\ last = Idle

\* the database after create_task("t1") and create_task("t2", depends_on=["t1"])
\* in project p1, no slot registered yet
Init ==
    /\ tasks = [t \in {"t1", "t2"} |-> NewTask("p1", NULL)]
    /\ deps = {<<"t2", "t1">>}
    /\ events = <<>>
    /\ slots = <<>>
    /\ runs = <<>>
    /\ active_processes = {}
    /\ procs = [p \in Pids |-> "none"]
    /\ monitor = MonitorStarted
    /\ last = Idle
    /\ logging = FALSE

\* the caller has seen the outcome of the operation that has just ended
Return ==
    /\ last # Idle
    /\ last' = Idle
    /\ UNCHANGED <<tasks, deps, events, slots, runs, active_processes, procs,
                   monitor, logging>>

\* the arguments the lifecycle specification passes
LifecycleTasks == {"t1", "t2", "t3"}
LifecycleOutputs == {"json_result"}
LifecycleNotify == {"skipped"}
LifecycleLabels == {NULL, "wt-alpha", "wt-gamma"}

Next ==
    \/ \E s \in SlotIds : RegisterSlot(s, "p1")
    \/ \E t \in LifecycleTasks, s \in SlotIds : AssignTask(t, s)
    \/ \E t \in LifecycleTasks, terminal \in BOOLEAN : LaunchAgent(t, terminal)
    \/ \E t \in LifecycleTasks, project \in {NULL, "p2"}, label \in LifecycleLabels,
          terminal \in BOOLEAN :
            DelegateTask(t, project, label, terminal)
    \/ \E t \in LifecycleTasks : CancelAgent(t)
    \/ \E pid \in Pids, code \in ExitCodes : ProcessExit(pid, code)
    \/ MonitorLoad
    \/ \E out \in LifecycleOutputs, notify \in LifecycleNotify : MonitorCheck(out, notify)
    \/ Return

Spec == Init /\ [][Next]_vars

\* the task graph alone: no slot, no run
InitGraph ==
    /\ InitEmpty
    /\ logging = FALSE

GraphStatuses == {"done", "bogus"}

NextGraph ==
    \/ \E t \in TaskIds, project \in Projects, parent \in TaskIds \cup {NULL},
          D \in SUBSET TaskIds :
            CreateTask(t, project, parent, D)
    \/ \E t \in TaskIds, d \in TaskIds : AddDependency(t, d)
    \/ \E t \in TaskIds, d \in TaskIds : RemoveDependency(t, d)
    \/ \E t \in TaskIds, st \in GraphStatuses : UpdateTaskStatus(t, st)
    \/ \E t \in TaskIds : DeleteTask(t)
    \/ \E project \in Projects : GetReadyTasks(project)
    \/ Return

SpecGraph == InitGraph /\ [][NextGraph]_vars

\* the event log kept: tasks are created, slots registered and assigned,
\* statuses updated
InitEvents ==
    /\ InitEmpty
    /\ logging = TRUE

EventTasks == {"t1", "t2"}
EventStatuses == {"in-progress"}

NextEvents ==
    \/ \E t \in EventTasks : CreateTask(t, "p1", NULL, {})
    \/ \E s \in SlotIds : RegisterSlot(s, "p1")
    \/ \E t \in TaskIds, s \in SlotIds : AssignTask(t, s)
    \/ \E t \in EventTasks, st \in EventStatuses : UpdateTaskStatus(t, st)
    \/ Return

SpecEvents == InitEvents /\ [][NextEvents]_vars

\* reconciliation: two tasks on two slots are launched, their processes
\* exit, and the monitor finds every kind of output and notification outcome
ReconcileTasks == {"t1", "t2"}

NextReconcile ==
    \/ \E s \in SlotIds : RegisterSlot(s, "p1")
    \/ \E t \in ReconcileTasks, s \in SlotIds : AssignTask(t, s)
    \/ \E t \in ReconcileTasks, terminal \in BOOLEAN : LaunchAgent(t, terminal)
    \/ \E pid \in Pids, code \in ExitCodes : ProcessExit(pid, code)
    \/ MonitorLoad
    \/ \E out \in OutputKinds, notify \in NotifyOutcomes : MonitorCheck(out, notify)
    \/ Return

SpecReconcile == Init /\ [][NextReconcile]_vars

\* the monitor thread: started, stopped and started again while one task is
\* delegated; with the fairness of a thread that is scheduled (the monitor's
\* steps) and of callers that return
MonitorOutputs == {"missing", "json_result"}

MonitorChecks == \E out \in MonitorOutputs : MonitorCheck(out, "skipped")

NextMonitor ==
    \/ RegisterSlot("s1", "p1")
    \/ \E terminal \in BOOLEAN : DelegateTask("t1", NULL, NULL, terminal)
    \/ \E pid \in Pids, code \in ExitCodes : ProcessExit(pid, code)
    \/ MonitorLoad
    \/ MonitorChecks
    \/ MonitorRaise
    \/ MonitorStop
    \/ MonitorExit
    \/ MonitorStart
    \/ Return

SpecMonitor ==
    /\ Init
    /\ [][NextMonitor]_vars
    /\ WF_vars(Return)
    /\ SF_vars(MonitorLoad)
    /\ SF_vars(MonitorChecks)
    /\ SF_vars(MonitorExit)

\* restarts of the orchestrator while two tasks are delegated; with the
\* fairness of the monitor thread and of callers that return, and of a
\* process id that is found free at some probe when it is free at every probe
RestartTasks == {"t1", "t2"}

NextRestart ==
    \/ \E s \in SlotIds : RegisterSlot(s, "p1")
    \/ \E t \in RestartTasks, terminal \in BOOLEAN : DelegateTask(t, NULL, NULL, terminal)
    \/ \E pid \in Pids, code \in ExitCodes : ProcessExit(pid, code)
    \/ Restart
    \/ MonitorLoad
    \/ MonitorChecks
    \/ Return

SpecRestart ==
    /\ Init
    /\ [][NextRestart]_vars
    /\ WF_vars(Return)
    /\ SF_vars(MonitorLoad)
    /\ SF_vars(MonitorChecks)
    /\ SF_vars(MonitorChecks /\ last'.op = "reconcile")

\* delegation over the slots of two projects: the slots are registered in
\* either project, tasks of project p1 are delegated with and without a
\* project and a label, and cancelled
DelegateTasks == {"t1", "t2"}
DelegateProjects == {NULL, "p1", "p2"}
DelegateLabels == {NULL, "wt-beta", "wt-gamma"}

NextDelegate ==
    \/ \E s \in SlotIds, project \in Projects : RegisterSlot(s, project)
    \/ \E t \in DelegateTasks, project \in DelegateProjects, label \in DelegateLabels,
          terminal \in BOOLEAN :
            DelegateTask(t, project, label, terminal)
    \/ \E t \in DelegateTasks : CancelAgent(t)
    \/ Return

SpecDelegate == Init /\ [][NextDelegate]_vars

\* review before done: task t1, on which t2 depends, is assigned, launched
\* and reconciled, statuses are set by hand, and the ready set is queried
ReviewStatuses == {"done", "todo"}

NextReview ==
    \/ RegisterSlot("s1", "p1")
    \/ AssignTask("t1", "s1")
    \/ \E terminal \in BOOLEAN : LaunchAgent("t1", terminal)
    \/ \E pid \in Pids, code \in ExitCodes : ProcessExit(pid, code)
    \/ MonitorLoad
    \/ \E out \in MonitorOutputs : MonitorCheck(out, "skipped")
    \/ \E t \in {"t1", "t2"}, st \in ReviewStatuses : UpdateTaskStatus(t, st)
    \/ GetReadyTasks("p1")
    \/ Return

SpecReview == Init /\ [][NextReview]_vars

\* slot discovery: the working copies of a repository are discovered for
\* either project, in any order, between single registrations and
\* assignments
WorktreeLists == {<<>>, <<"s1">>, <<"s2">>, <<"s1", "s2">>, <<"s2", "s1">>}

NextDiscover ==
    \/ \E project \in Projects, wts \in WorktreeLists : DiscoverWorktrees(project, wts)
    \/ \E s \in SlotIds, project \in Projects : RegisterSlot(s, project)
    \/ \E t \in DelegateTasks, s \in SlotIds : AssignTask(t, s)
    \/ Return

SpecDiscover == Init /\ [][NextDiscover]_vars

\* the task graph with its event log kept: two tasks are created, made to
\* depend on each other, given valid and invalid statuses, and deleted
LogTasks == {"t1", "t2"}
LogStatuses == {"done", "review", "bogus"}

NextLog ==
    \/ \E t \in LogTasks : CreateTask(t, "p1", NULL, {})
    \/ \E t \in LogTasks, d \in LogTasks : AddDependency(t, d)
    \/ \E t \in LogTasks, d \in LogTasks : RemoveDependency(t, d)
    \/ \E t \in LogTasks, st \in LogStatuses : UpdateTaskStatus(t, st)
    \/ \E t \in LogTasks : DeleteTask(t)
    \/ Return

SpecLog == InitEvents /\ [][NextLog]_vars

\* the event log under every kind of operation: the task graph of SpecLog
\* together with a slot and the launch, cancellation and reconciliation of
\* the runs of task t1
NextAudit ==
    \/ NextLog
    \/ RegisterSlot("s1", "p1")
    \/ AssignTask("t1", "s1")
    \/ \E terminal \in BOOLEAN : LaunchAgent("t1", terminal)
    \/ CancelAgent("t1")
    \/ \E pid \in Pids, code \in ExitCodes : ProcessExit(pid, code)
    \/ MonitorLoad
    \/ \E out \in MonitorOutputs : MonitorCheck(out, "skipped")

SpecAudit == InitEvents /\ [][NextAudit]_vars

\* delegation with the event log kept: tasks t1 and t2 exist, t3 does not;
\* slots are registered in either project
InitDelegateLogged ==
    /\ tasks = [t \in {"t1", "t2"} |-> NewTask("p1", NULL)]
    /\ deps = {}
    /\ events = <<>>
    /\ slots = <<>>
    /\ runs = <<>>
    /\ active_processes = {}
    /\ procs = [p \in Pids |-> "none"]
    /\ monitor = MonitorStarted
    /\ last = Idle
    /\ logging = TRUE

NextDelegateLogged ==
    \/ \E s \in SlotIds, project \in Projects : RegisterSlot(s, project)
    \/ \E t \in TaskIds, project \in DelegateProjects, label \in DelegateLabels,
          terminal \in BOOLEAN :
            DelegateTask(t, project, label, terminal)
    \/ \E t \in DelegateTasks : CancelAgent(t)
    \/ Return

SpecDelegateLogged == InitDelegateLogged /\ [][NextDelegateLogged]_vars

\* a run whose reconciliation raises at every attempt: the output file of
\* every run of task t1 holds a JSON object whose "result" is itself an
\* object or a list, which the UPDATE of agent_runs cannot bind
FailingTasks == {"t1"}

\* an iteration of the monitor raises while it handles a run of a failing task
MonitorRaiseFailing ==
    /\ monitor.pc = "checking"
    /\ runs[Head(monitor.rows)].task_id \in FailingTasks
    /\ MonitorRaise

\* a check of the next loaded row that does not raise: the run goes on, or
\* it is a run of another task and is handled
MonitorCheckSound ==
    /\ MonitorChecks
    /\ last'.op = "reconcile" => last'.arg \notin FailingTasks

\* the next step of the monitor thread inside its iteration
MonitorStep == MonitorCheckSound \/ MonitorRaiseFailing

\* two tasks are delegated in background mode, their processes exit, and the
\* monitor iterates; with the fairness of a thread that is scheduled (which
\* way its step goes is not the scheduler's choice) and of callers that return
NextIsolate ==
    \/ \E s \in SlotIds : RegisterSlot(s, "p1")
    \/ \E t \in RestartTasks : DelegateTask(t, NULL, NULL, FALSE)
    \/ \E pid \in Pids, code \in ExitCodes : ProcessExit(pid, code)
    \/ MonitorLoad
    \/ MonitorCheckSound
    \/ MonitorRaiseFailing
    \/ Return

SpecIsolate ==
    /\ Init
    /\ [][NextIsolate]_vars
    /\ WF_vars(Return)
    /\ SF_vars(MonitorLoad)
    /\ SF_vars(MonitorStep)

\* dependency cycles: dependencies are added and removed between the two
\* tasks (t2 depends on t1 at the start) while the tasks are assigned,
\* launched, cancelled and reconciled; no status is set by hand
CycleTasks == {"t1", "t2"}

NextCycle ==
    \/ \E t \in CycleTasks, d \in CycleTasks : AddDependency(t, d)
    \/ \E t \in CycleTasks, d \in CycleTasks : RemoveDependency(t, d)
    \/ RegisterSlot("s1", "p1")
    \/ \E t \in CycleTasks : AssignTask(t, "s1")
    \/ \E t \in CycleTasks, terminal \in BOOLEAN : LaunchAgent(t, terminal)
    \/ \E t \in CycleTasks : CancelAgent(t)
    \/ \E pid \in Pids, code \in ExitCodes : ProcessExit(pid, code)
    \/ MonitorLoad
    \/ \E out \in MonitorOutputs : MonitorCheck(out, "skipped")
    \/ GetReadyTasks("p1")
    \/ Return

SpecCycle == Init /\ [][NextCycle]_vars

\* the wait for the pid file: the polls at which the file appears and at
\* which it holds a number (PollLimit + 1: not within the wait), for
\* visible-mode launches of two tasks that are assigned and cancelled
PollTimes == {1, 2, PollLimit, PollLimit + 1}

PidFiles ==
    {obs \in [appears : PollTimes, valid : PollTimes, pid : Pids] :
        obs.appears <= obs.valid}

WaitTasks == {"t1", "t2"}

NextWait ==
    \/ \E s \in SlotIds : RegisterSlot(s, "p1")
    \/ \E t \in WaitTasks, s \in SlotIds : AssignTask(t, s)
    \/ \E t \in WaitTasks, obs \in PidFiles : LaunchInTerminal(t, obs)
    \/ \E t \in WaitTasks : CancelAgent(t)
    \/ \E pid \in Pids, code \in ExitCodes : ProcessExit(pid, code)
    \/ Return

SpecWait == Init /\ [][NextWait]_vars

\* the ready and the blocked query over the task graph: tasks and subtasks
\* are created in either project, with dependencies, made to depend on each
\* other, set to done and back to todo, and deleted
PartitionParents == {NULL, "t1"}
PartitionStatuses == {"done", "todo"}

NextPartition ==
    \/ \E t \in TaskIds, project \in Projects, parent \in PartitionParents,
          D \in SUBSET TaskIds :
            CreateTask(t, project, parent, D)
    \/ \E t \in TaskIds, d \in TaskIds : AddDependency(t, d)
    \/ \E t \in TaskIds, d \in TaskIds : RemoveDependency(t, d)
    \/ \E t \in TaskIds, st \in PartitionStatuses : UpdateTaskStatus(t, st)
    \/ \E t \in TaskIds : DeleteTask(t)
    \/ \E project \in Projects : GetReadyTasks(project)
    \/ \E project \in Projects : GetBlockedTasks(project)
    \/ Return

SpecPartition == InitGraph /\ [][NextPartition]_vars

\* the monitor is stopped and started again while the run of one task is
\* being checked
NextStartStop ==
    \/ RegisterSlot("s1", "p1")
    \/ \E terminal \in BOOLEAN : DelegateTask("t1", NULL, NULL, terminal)
    \/ \E pid \in Pids, code \in ExitCodes : ProcessExit(pid, code)
    \/ MonitorLoad
    \/ MonitorChecks
    \/ MonitorStopJoin
    \/ MonitorExit
    \/ MonitorStart
    \/ Return

SpecStartStop == Init /\ [][NextStartStop]_vars

----------------------------------------------------------------------------
(* Properties of the run lifecycle (Spec) *)

\* the running runs that reference task t, read from the table itself
RunningRows(t) ==
    {r \in DOMAIN runs : runs[r].task_id = t /\ runs[r].status = "running"}

\* the slots whose occupant is task t, read from the table itself
OccupiedBy(t) == {s \in DOMAIN slots : slots[s].current_task_id = t}

\* C1: after any sequence of assign, launch, delegate, cancel and
\* reconciliation steps, every task is referenced by at most one run whose
\* status is running
C1_OneRunningRunPerTask ==
    \A t \in TaskIds : Cardinality(RunningRows(t)) <= 1

\* a task was launched again after an earlier run of it had ended
C1_Witness ==
    \E t \in TaskIds :
        /\ Cardinality(RunningRows(t)) = 1
        /\ \E r \in DOMAIN runs :
               runs[r].task_id = t /\ runs[r].status \in TerminalStatuses

\* C2: in every reachable state a slot's status is occupied if and only if
\* its occupying task id is set
C2_OccupiedIffTask ==
    \A s \in DOMAIN slots :
        slots[s].status = "occupied" <=> slots[s].current_task_id # NULL

\* one slot is occupied while another one has been released by the end of
\* the run that used it
C2_Witness ==
    \E s1, s2 \in DOMAIN slots :
        /\ slots[s1].status = "occupied" /\ slots[s1].current_task_id # NULL
        /\ slots[s2].status = "available" /\ slots[s2].current_task_id = NULL
        /\ \E r \in DOMAIN runs :
               runs[r].worktree_slot_id = s2 /\ runs[r].status \in TerminalStatuses

\* C3: no task is the occupying task of two different slots at the same time
C3_OneSlotPerTask ==
    \A t \in TaskIds : Cardinality(OccupiedBy(t)) <= 1

\* C4: a run becomes terminal exactly once: once its status is completed,
\* failed or cancelled, no later step changes its status, exit code, summary
\* or completion time
C4_TerminalOnce ==
    [][\A r \in DOMAIN runs :
           runs[r].status \in TerminalStatuses =>
               /\ runs'[r].status = runs[r].status
               /\ runs'[r].exit_code = runs[r].exit_code
               /\ runs'[r].result_summary = runs[r].result_summary
               /\ runs'[r].completed_at = runs[r].completed_at]_vars

\* C5: a run is created with status running, and the status of an existing
\* run only ever moves from running to completed, failed or cancelled
C5_StatusMonotonic ==
    [][/\ \A r \in DOMAIN runs' \ DOMAIN runs : runs'[r].status = "running"
       /\ \A r \in DOMAIN runs :
              runs'[r].status # runs[r].status =>
                  /\ runs[r].status = "running"
                  /\ runs'[r].status \in TerminalStatuses]_vars

\* the step is the end of operation op called for task t
Ends(op, t) == last'.op = op /\ last'.arg = t

\* C7: launching a run for a task that already has a running run fails,
\* creates no new run and leaves the existing run unchanged (same process
\* id, same status running); no process is started either
C7_SecondLaunchRefused ==
    [][\A t \in TaskIds :
           (Ends("launch", t) /\ RunningRows(t) # {}) =>
               /\ last'.outcome \in {"already_running", "not_assigned"}
               /\ runs' = runs
               /\ procs' = procs
               /\ active_processes' = active_processes]_vars

\* a launch has just been refused because the task has a running run
C7_Witness ==
    /\ last.op = "launch"
    /\ last.outcome = "already_running"
    /\ RunningRows(last.arg) # {}

\* C8: launching a run for a task that no slot records as its occupant
\* fails, starts no process, creates no run and leaves the task's status
\* (the whole tasks table) unchanged
C8_LaunchNeedsSlot ==
    [][\A t \in TaskIds :
           (Ends("launch", t) /\ OccupiedBy(t) = {}) =>
               /\ last'.outcome \in {"not_assigned", "task_not_found"}
               /\ runs' = runs
               /\ procs' = procs
               /\ active_processes' = active_processes
               /\ tasks' = tasks]_vars

\* a launch of an existing task has just been refused for want of a slot,
\* while a slot is occupied by another task
C8_Witness ==
    /\ last.op = "launch"
    /\ last.outcome = "not_assigned"
    /\ last.arg \in DOMAIN tasks
    /\ OccupiedBy(last.arg) = {}
    /\ \E s \in DOMAIN slots : slots[s].status = "occupied"

\* C9: a successful launch persists exactly one new run, with status
\* running, the process id of the process it started (or the sentinel when
\* the id was not learnt) and a slot occupied by the task; it moves the task
\* to in-progress iff its status was todo and leaves any other status as it
\* was; the slots are left as they were, so the slot stays occupied by the
\* task
C9_LaunchPersistsRun ==
    [][\A t \in TaskIds :
           (Ends("launch", t) /\ last'.outcome = "ok") =>
               /\ Len(runs') = Len(runs) + 1
               /\ SubSeq(runs', 1, Len(runs)) = runs
               /\ LET new == runs'[Len(runs')]
                  IN  /\ new.status = "running"
                      /\ new.task_id = t
                      /\ new.exit_code = NoneCode
                      /\ new.completed_at = 0
                      /\ \/ new.pid = SentinelPid /\ procs' = procs
                         \/ /\ new.pid \in Pids
                            /\ procs[new.pid] # "alive"
                            /\ procs' = [procs EXCEPT ![new.pid] = "alive"]
                      /\ new.worktree_slot_id \in OccupiedBy(t)
                      /\ slots'[new.worktree_slot_id].status = "occupied"
                      /\ slots'[new.worktree_slot_id].current_task_id = t
               /\ slots' = slots
               /\ tasks'[t].status =
                      IF tasks[t].status = "todo" THEN "in-progress" ELSE tasks[t].status
               /\ \A o \in DOMAIN tasks \ {t} : tasks'[o] = tasks[o]]_vars

\* a task under review has just been launched again: its status stays review
C9_Witness ==
    /\ last.op = "launch"
    /\ last.outcome = "ok"
    /\ tasks[last.arg].status = "review"
    /\ runs[last.run].status = "running"
    /\ Len(runs) = 2

\* C10: cancelling a task that has a running run sends exactly one
\* termination signal to the run's recorded process id, sets the run's status
\* to cancelled with a completion timestamp and leaves the run's slot
\* available with its occupant cleared, for every recorded process id and
\* also when the process had already exited
C10_CancelSignalsAndReleases ==
    [][\A t \in TaskIds :
           (Ends("cancel", t) /\ RunningRows(t) # {}) =>
               LET r == last'.run
               IN  /\ r \in RunningRows(t)
                   /\ last'.kills = <<Kill(runs[r].pid, "SIGTERM")>>
                   /\ runs'[r].status = "cancelled"
                   /\ runs'[r].completed_at # 0
                   /\ slots'[runs[r].worktree_slot_id].status = "available"
                   /\ slots'[runs[r].worktree_slot_id].current_task_id = NULL]_vars

\* C11: cancelling a task that has no running run returns none, sends no
\* signal and leaves every run, slot and task (and every process and handle)
\* unchanged
C11_CancelNothing ==
    [][\A t \in TaskIds :
           (Ends("cancel", t) /\ RunningRows(t) = {}) =>
               /\ last'.outcome = "none"
               /\ last'.run = 0
               /\ last'.kills = <<>>
               /\ runs' = runs
               /\ slots' = slots
               /\ tasks' = tasks
               /\ procs' = procs
               /\ active_processes' = active_processes]_vars

\* a cancel has just found nothing to cancel for a task whose earlier run
\* has ended and whose process is still alive
C11_Witness ==
    /\ last.op = "cancel"
    /\ last.outcome = "none"
    /\ \E r \in DOMAIN runs :
           /\ runs[r].task_id = last.arg
           /\ runs[r].status \in TerminalStatuses
           /\ runs[r].pid # SentinelPid
           /\ procs[runs[r].pid] = "alive"

\* C12: assigning a task to a slot that is already occupied fails with the
\* already-occupied error and leaves the slots (status, occupant), the tasks
\* (slot path, branch, status) and the event log unchanged
C12_AssignOccupiedRefused ==
    [][\A t \in TaskIds, s \in SlotIds :
           (/\ Ends("assign", t)
            /\ last'.slot = s
            /\ s \in DOMAIN slots
            /\ slots[s].status = "occupied") =>
               /\ last'.outcome = "already_occupied"
               /\ slots' = slots
               /\ tasks' = tasks
               /\ events' = events]_vars

\* an existing task has just been refused a slot that another task occupies,
\* with events in the log
C12_Witness ==
    /\ last.op = "assign"
    /\ last.outcome = "already_occupied"
    /\ last.arg \in DOMAIN tasks
    /\ slots[last.slot].status = "occupied"
    /\ slots[last.slot].current_task_id # last.arg
    /\ Len(events) >= 3

\* C17: no monitor iteration and no cancel ever issues a liveness probe or a
\* signal against the sentinel process id
C17_SentinelNeverSignalled ==
    \A i \in DOMAIN last.kills : last.kills[i].pid # SentinelPid

----------------------------------------------------------------------------
(* Properties of reconciliation (SpecReconcile) *)

\* the monitor has just handled a run: _handle_completion ran for last'.run
Reconciles == last'.op = "reconcile"

\* the slot of the run just handled is available and holds no task
SlotFreed ==
    LET s == runs[last'.run].worktree_slot_id
    IN  s # NULL => /\ slots'[s].status = "available"
                    /\ slots'[s].current_task_id = NULL

\* the outputs from which a failure is inferred when no exit code is known
InferredFailures == {"unreadable", "empty", "json_nonobject", "text_error"}

C15_NoOutputFails ==
    [][(Reconciles /\ last'.output \in {"empty", "unreadable", "missing"}) =>
           /\ runs'[last'.run].status = "failed"
           /\ runs'[last'.run].result_summary # NULL
           /\ tasks' = tasks]_vars

\* C19: what a reconciliation stores (the run's status, exit code and
\* summary, the tasks, the slots) is fixed by the run, the exit code and the
\* output, whether the notification is sent, fails or is skipped; and after
\* a notification that failed the monitor goes on with the rows left of the
\* iteration and keeps running for later iterations
C19_NotificationBestEffort ==
    [][Reconciles =>
           LET r == last'.run
               res == ReadOutput(last'.exit_code, last'.output)
               status == CompletionStatus(res.exit_code)
           IN  /\ last'.notify \in NotifyOutcomes
               /\ runs' = RunCompleted(runs, r, status, res)
               /\ tasks' = IF status = "completed"
                           THEN StatusUpdated(tasks, runs[r].task_id, "review")
                           ELSE tasks
               /\ slots' = SlotReleased(slots, runs[r].worktree_slot_id)
               /\ monitor'.rows = Tail(monitor.rows)
               /\ monitor'.pc = IF Tail(monitor.rows) = <<>> THEN "idle" ELSE "checking"
               /\ monitor'.stop = monitor.stop]_vars

\* a reconciliation whose notification failed has just ended with another
\* run of the same iteration still to check
C19_Witness ==
    /\ last.op = "reconcile"
    /\ last.notify = "failed"
    /\ monitor.pc = "checking"
    /\ monitor.rows # <<>>
    /\ runs[last.run].status \in TerminalStatuses

----------------------------------------------------------------------------
(* Properties of delegation (SpecDelegate) *)

\* the available slots of project p
AvailableIn(p) ==
    {s \in DOMAIN slots : slots[s].project_id = p /\ slots[s].status = "available"}

\* the slots of project p with label l
LabelledIn(p, l) ==
    {s \in DOMAIN slots : slots[s].project_id = p /\ slots[s].label = l}

\* a delegation of task t has just ended that got as far as selecting a slot
\* (the task exists and had no running run)
Selects(t) ==
    /\ Ends("delegate", t)
    /\ t \in DOMAIN tasks
    /\ RunningRows(t) = {}

\* the delegation that has just ended took slot last'.slot for task t
Takes(t) ==
    /\ last'.outcome \in {"ok", "launch_failed"}
    /\ last'.slot \in DOMAIN slots
    /\ slots' = [slots EXCEPT ![last'.slot] =
                    [@ EXCEPT !.status = "occupied", !.current_task_id = t]]

\* the slot selection of a delegation of task t that looks for a labelled
\* slot in project pl and for an unlabelled one in project pn
SelectsSlotIn(t, pl, pn) ==
    IF last'.label # NULL THEN
        /\ LabelledIn(pl, last'.label) = {} =>
               last'.outcome = "slot_not_found" /\ slots' = slots
        /\ (\A s \in LabelledIn(pl, last'.label) : slots[s].status # "available") =>
               last'.outcome \in {"slot_not_found", "already_occupied"} /\ slots' = slots
        /\ (\E s \in LabelledIn(pl, last'.label) : slots[s].status = "available") =>
               /\ Takes(t)
               /\ last'.slot \in LabelledIn(pl, last'.label)
               /\ slots[last'.slot].status = "available"
    ELSE
        /\ AvailableIn(pn) = {} =>
               last'.outcome = "no_available_slot" /\ slots' = slots
        /\ AvailableIn(pn) # {} =>
               /\ Takes(t)
               /\ last'.slot \in AvailableIn(pn)
               /\ \A o \in AvailableIn(pn) :
                      ~LabelLess(slots[o].label, slots[last'.slot].label)

C21_LaunchFailureKeepsAssignment ==
    [][\A t \in TaskIds :
           (Ends("delegate", t) /\ last'.outcome = "launch_failed") =>
               LET s == last'.slot
               IN  /\ s \in DOMAIN slots
                   /\ slots[s].status = "available"
                   /\ slots'[s].status = "occupied"
                   /\ slots'[s].current_task_id = t
                   /\ \A o \in DOMAIN slots : o # s => slots'[o] = slots[o]
                   /\ tasks'[t].worktree_path = s
                   /\ tasks'[t].branch_name = s
                   /\ tasks'[t].status = tasks[t].status
                   /\ runs' = runs
                   /\ procs' = procs
                   /\ active_processes' = active_processes]_vars

\* a delegation has just failed in its launch step: the slot it chose is
\* occupied by the task and the task has no run at all
C21_Witness ==
    /\ last.op = "delegate"
    /\ last.outcome = "launch_failed"
    /\ last.slot \in DOMAIN slots
    /\ slots[last.slot].status = "occupied"
    /\ slots[last.slot].current_task_id = last.arg
    /\ tasks[last.arg].worktree_path = last.slot
    /\ \A r \in DOMAIN runs : runs[r].task_id # last.arg

----------------------------------------------------------------------------
(* Properties of review (SpecReview): t2 depends on t1 *)

\* C22: a run that reconciles as completed moves its task to review, never
\* to done; task t2, which depends on t1, is returned by no ready query while
\* t1 is not done, through t1's assignment, launch and reconciliation; and
\* t1 becomes done only by a status update that sets it to done
C22_ReviewNotDone ==
    /\ [](last.op = "get_ready_tasks" /\ "t2" \in last.rows => tasks["t1"].status = "done")
    /\ [][(Reconciles /\ last'.outcome = "completed") =>
              tasks'[last'.arg].status = "review"]_vars
    /\ [][(tasks["t1"].status # "done" /\ tasks'["t1"].status = "done") =>
              /\ last'.op = "update_status"
              /\ last'.arg = "t1"
              /\ last'.outcome = "ok"]_vars

\* the run of t1 was reconciled as completed, t1 is in review, and a ready
\* query has just returned without t2
C22_Witness ==
    /\ last.op = "get_ready_tasks"
    /\ "t2" \notin last.rows
    /\ tasks["t1"].status = "review"
    /\ tasks["t2"].status = "todo"
    /\ \E r \in DOMAIN runs : runs[r].task_id = "t1" /\ runs[r].status = "completed"

----------------------------------------------------------------------------
(* Properties of slot discovery (SpecDiscover) *)

\* the working copies of the list wts
Range(wts) == {wts[i] : i \in DOMAIN wts}

\* C23: slot discovery is idempotent. A discovery for a project over working
\* copies that are all registered for it already registers no slot and
\* leaves every slot as it was; and after any discovery that returned, a
\* second one for the same project over the same working copies returns,
\* registers no slot and leaves the slots, their status and their occupants
\* unchanged
C23_DiscoverIdempotent ==
    [][last'.op = "discover" =>
           LET p == last'.arg
               wts == last'.worktrees
               again == Discovered(slots', p,
                                   {s \in DOMAIN slots' : slots'[s].project_id = p},
                                   wts, {})
           IN  /\ (\A w \in Range(wts) : w \in DOMAIN slots /\ slots[w].project_id = p) =>
                      /\ last'.outcome = "ok"
                      /\ last'.rows = {}
                      /\ slots' = slots
               /\ last'.outcome = "ok" =>
                      /\ \A w \in Range(wts) : w \in DOMAIN slots' /\ slots'[w].project_id = p
                      /\ again.outcome = "ok"
               /\ again.registered = {}
               /\ again.slots = slots']_vars

\* a discovery over two working copies has just registered nothing: both
\* were registered for the project already, one of them occupied
C23_Witness ==
    /\ last.op = "discover"
    /\ last.outcome = "ok"
    /\ last.rows = {}
    /\ Len(last.worktrees) = 2
    /\ \A s \in SlotIds : s \in DOMAIN slots /\ slots[s].project_id = last.arg
    /\ \E s \in SlotIds : slots[s].status = "occupied"

----------------------------------------------------------------------------
(* Properties of the event log (SpecLog) *)

\* C24: adding a dependency that the task already has leaves the dependency
\* set unchanged (the pair is there once: deps is the set of pairs the
\* primary key of task_dependencies allows) and appends no event
C24_AddDependencyIdempotent ==
    [][\A t \in TaskIds :
           (/\ Ends("add_dependency", t)
            /\ t \in DOMAIN tasks
            /\ <<t, last'.dep>> \in deps) =>
               /\ last'.outcome = "already_exists"
               /\ deps' = deps
               /\ events' = events
               /\ tasks' = tasks]_vars

\* a dependency that the task already had has just been added again, with
\* events in the log
C24_Witness ==
    /\ last.op = "add_dependency"
    /\ last.outcome = "already_exists"
    /\ <<last.arg, last.dep>> \in deps
    /\ last.arg # last.dep
    /\ Len(events) >= 3

\* C25: every task's status is always one of todo, in-progress, review,
\* done, blocked; a status update with any other value is rejected and
\* leaves the task's status (every task) and the event log unchanged
C25_StatusInDomain ==
    /\ [](\A t \in DOMAIN tasks :
              tasks[t].status \in {"todo", "in-progress", "review", "done", "blocked"})
    /\ [][\A t \in TaskIds :
              (/\ Ends("update_status", t)
               /\ last'.status \notin {"todo", "in-progress", "review", "done", "blocked"}) =>
                  /\ last'.outcome \in {"invalid_status", "task_not_found"}
                  /\ tasks' = tasks
                  /\ events' = events]_vars

\* an update of an existing task with a status outside the five has just
\* been rejected, with events in the log
C25_Witness ==
    /\ last.op = "update_status"
    /\ last.status = "bogus"
    /\ last.outcome = "invalid_status"
    /\ last.arg \in DOMAIN tasks
    /\ tasks[last.arg].status = "review"
    /\ Len(events) >= 2

\* the log a is the beginning of the log b
IsPrefix(a, b) == Len(a) <= Len(b) /\ \A i \in DOMAIN a : b[i] = a[i]

\* the events of ev whose task is in keep, in their order
RECURSIVE EventsOf(_, _)
EventsOf(ev, keep) ==
    IF ev = <<>> THEN <<>>
    ELSE IF Head(ev).task_id \in keep THEN <<Head(ev)>> \o EventsOf(Tail(ev), keep)
    ELSE EventsOf(Tail(ev), keep)

\* a successful status update appends exactly one event holding the old and
\* the new status, and setting the status to done stamps the completion time
StatusUpdateLogged ==
    \A t \in TaskIds :
        (Ends("update_status", t) /\ last'.outcome = "ok") =>
            /\ events' = Append(events, [task_id |-> t, event_type |-> "status_changed",
                                         old_value |-> tasks[t].status,
                                         new_value |-> last'.status])
            /\ tasks'[t].status = last'.status
            /\ last'.status = "done" => tasks'[t].completed_at # 0

----------------------------------------------------------------------------
(* Properties of delegation with the log kept (SpecDelegateLogged) and of
   delegation and readiness (SpecDelegate) *)

\* the ways delegate_task fails before it assigns a slot
DelegateRefusals ==
    {"task_not_found", "already_running", "slot_not_found", "already_occupied",
     "no_available_slot"}

\* the delegation of t that has just ended had to fail in validation or slot
\* selection: no such task, a running run, no slot with the label asked for
\* in the project, that slot occupied, or no available slot in the project
MustRefuse(t) ==
    \/ t \notin DOMAIN tasks
    \/ RunningRows(t) # {}
    \/ LET p == IF last'.project # NULL THEN last'.project ELSE tasks[t].project_id
       IN  IF last'.label # NULL
           THEN \A s \in LabelledIn(p, last'.label) : slots[s].status = "occupied"
           ELSE AvailableIn(p) = {}

\* C27: when delegate fails in validation or slot selection (task not found,
\* task already has a running run, requested slot missing, requested slot
\* occupied, no available slot) it starts no process and leaves every slot,
\* task, run and event unchanged; and it fails so in each of these cases
C27_RefusedDelegateChangesNothing ==
    [][\A t \in TaskIds :
           Ends("delegate", t) =>
               /\ MustRefuse(t) => last'.outcome \in DelegateRefusals
               /\ last'.outcome \in DelegateRefusals =>
                      /\ MustRefuse(t)
                      /\ last'.run = 0
                      /\ slots' = slots
                      /\ tasks' = tasks
                      /\ runs' = runs
                      /\ events' = events
                      /\ procs' = procs
                      /\ active_processes' = active_processes]_vars

\* a delegation of a task whose run is running has just been refused, with
\* the events of the first delegation in the log
C27_Witness ==
    /\ last.op = "delegate"
    /\ last.outcome = "already_running"
    /\ Len(events) >= 3
    /\ \E r \in DOMAIN runs : runs[r].task_id = last.arg /\ runs[r].status = "running"

\* C28: delegate assigns a slot and launches a run only for a task that is
\* ready at the time of the call: a task that is not todo, or that has a
\* dependency whose status is not done, is neither assigned nor launched
C28_DelegateOnlyReady ==
    [][\A t \in TaskIds :
           (/\ Ends("delegate", t)
            /\ t \in DOMAIN tasks
            /\ \/ tasks[t].status # "todo"
               \/ \E d \in TaskIds : <<t, d>> \in deps /\ tasks[d].status # "done") =>
               /\ slots' = slots
               /\ runs' = runs]_vars

----------------------------------------------------------------------------
(* Properties of the monitor thread (SpecMonitor) *)

\* C18: the monitor loop keeps iterating after an iteration raised (it loads
\* again unless stop is called); its thread ends only after stop was called;
\* and once stop is called the thread eventually ends
C18_MonitorLoop ==
    /\ [][(monitor.pc # "stopped" /\ monitor'.pc = "stopped") => monitor.stop]_vars
    /\ (last.op = "monitor_raise" /\ ~monitor.stop)
           ~> (last.op = "monitor_load" \/ monitor.stop)
    /\ monitor.stop ~> (monitor.pc = "stopped")

\* an iteration has just raised while a run is running and stop was not
\* called: the thread is back at its loop test
C18_Witness ==
    /\ last.op = "monitor_raise"
    /\ monitor.pc = "idle"
    /\ ~monitor.stop
    /\ \E r \in DOMAIN runs : runs[r].status = "running"

----------------------------------------------------------------------------
(* Properties of restarts (SpecRestart) *)

RunIds == 1..MaxRuns

\* run r is marked running and the registry holds no handle for its pid
Orphaned(r) ==
    /\ r \in DOMAIN runs
    /\ runs[r].status = "running"
    /\ runs[r].pid \notin active_processes

\* run r has a terminal status
Ended(r) == r \in DOMAIN runs /\ runs[r].status \in TerminalStatuses

\* the monitor has just handled run r on the probe path with an unknown exit
\* code: the run is terminal and its slot released
OrphanReconciled ==
    (last'.op = "reconcile" /\ last'.exit_code = NoneCode) =>
        LET r == last'.run
        IN  /\ Orphaned(r)
            /\ runs'[r].status \in TerminalStatuses
            /\ slots'[runs[r].worktree_slot_id].status = "available"
            /\ slots'[runs[r].worktree_slot_id].current_task_id = NULL

\* a monitor check of an orphaned run whose process is alive leaves it alone
LiveOrphanKept ==
    \A r \in RunIds :
        (/\ last'.op \in {"monitor_check", "reconcile"}
         /\ last'.run = r
         /\ Orphaned(r)
         /\ runs[r].pid # SentinelPid
         /\ procs[runs[r].pid] = "alive") =>
            /\ last'.outcome = "still_running"
            /\ runs' = runs
            /\ slots' = slots
            /\ tasks' = tasks

\* C16: with the monitor fairly scheduled, every run marked running without
\* a handle whose recorded process (a real process id, not the sentinel) no
\* longer exists is eventually terminal, reconciled with an unknown exit code
\* and its slot released, and a run whose process still exists stays running
C16_EveryOrphanReconciled ==
    /\ \A r \in RunIds :
           (Orphaned(r) /\ runs[r].pid # SentinelPid /\ procs[runs[r].pid] # "alive")
               ~> Ended(r)
    /\ [][OrphanReconciled /\ LiveOrphanKept]_vars

----------------------------------------------------------------------------
(* Properties of the task graph (SpecGraph) *)

\* the tasks of project p whose status is todo and whose every dependency
\* has status done
ReadyByDefinition(p) ==
    {t \in DOMAIN tasks :
        /\ tasks[t].project_id = p
        /\ tasks[t].status = "todo"
        /\ \A d \in TaskIds :
               <<t, d>> \in deps => d \in DOMAIN tasks /\ tasks[d].status = "done"}

\* C6: for every project and every state of the task graph, the ready query
\* returns exactly the tasks of the project (top-level tasks and subtasks
\* alike) that are todo with every dependency done
C6_ReadyExact ==
    last.op = "get_ready_tasks" => last.rows = ReadyByDefinition(last.arg)

----------------------------------------------------------------------------
(* Properties of an iteration that raises (SpecIsolate) *)

\* run r is marked running, the registry holds the handle of its process,
\* and the process has exited
Finished(r) ==
    /\ r \in DOMAIN runs
    /\ runs[r].status = "running"
    /\ runs[r].pid \in active_processes
    /\ procs[runs[r].pid] \in {"exit0", "exit1"}

\* C31: with the monitor fairly scheduled, every finished run whose own
\* reconciliation does not raise is eventually terminal, also when the
\* reconciliation of another run raises on every iteration
C31_FinishedRunsReconciled ==
    \A r \in RunIds :
        (Finished(r) /\ runs[r].task_id \notin FailingTasks) ~> Ended(r)

----------------------------------------------------------------------------
(* Properties of dependency cycles (SpecCycle) *)

\* the tasks reached from the tasks in S along the dependencies in D
RECURSIVE ReachedFrom(_, _)
ReachedFrom(S, D) ==
    LET next == S \cup {e[2] : e \in {x \in D : x[1] \in S}}
    IN  IF next = S THEN S ELSE ReachedFrom(next, D)

\* task t depends, directly or through other tasks, on itself
OnCycle(t) == \E d \in TaskIds : <<t, d>> \in deps /\ t \in ReachedFrom({d}, deps)

\* C32: an add_dependency that closes a cycle (a task depending on itself
\* included) is accepted and stores the dependency, and no task on a cycle
\* is returned by the ready query, whatever launch, cancel and
\* reconciliation have done to the statuses
C32_CycleNeverReady ==
    /\ [][\A t, d \in TaskIds :
              (/\ Ends("add_dependency", t)
               /\ last'.dep = d
               /\ {t, d} \subseteq DOMAIN tasks
               /\ <<t, d>> \notin deps
               /\ t \in ReachedFrom({d}, deps)) =>
                  /\ last'.outcome = "ok"
                  /\ deps' = deps \cup {<<t, d>>}]_vars
    /\ [](last.op = "get_ready_tasks" => \A t \in last.rows : ~OnCycle(t))

\* the ready query has just been answered while t1 and t2 depend on each
\* other and both are todo
C32_Witness ==
    /\ last.op = "get_ready_tasks"
    /\ last.rows = {}
    /\ <<"t1", "t2">> \in deps
    /\ <<"t2", "t1">> \in deps
    /\ tasks["t1"].status = "todo"
    /\ tasks["t2"].status = "todo"

----------------------------------------------------------------------------
(* Properties of the wait for the pid file (SpecWait) *)

\* C33: a visible-mode launch that passes its checks makes at most
\* PollLimit polls of the pid file; when the file holds a number at some
\* poll within the limit, the launch stops at the first such poll and
\* records that number; otherwise it makes PollLimit polls and records the
\* sentinel; either way it inserts one run with status running
C33_WaitTerminates ==
    [][\A t \in TaskIds :
           (Ends("launch", t) /\ last'.polls > 0) =>
               LET obs == last'.pid_file
                   new == runs'[Len(runs')]
               IN  /\ last'.outcome = "ok"
                   /\ last'.polls \in 1..PollLimit
                   /\ obs.valid <= PollLimit =>
                          /\ last'.polls = obs.valid
                          /\ new.pid = obs.pid
                   /\ obs.valid > PollLimit =>
                          /\ last'.polls = PollLimit
                          /\ new.pid = SentinelPid
                   /\ Len(runs') = Len(runs) + 1
                   /\ new.task_id = t
                   /\ new.status = "running"]_vars

\* a visible-mode launch has just recorded the number it found at its
\* second poll, after an earlier launch had waited in vain and recorded the
\* sentinel
C33_Witness ==
    /\ last.op = "launch"
    /\ last.outcome = "ok"
    /\ last.polls = 2
    /\ last.pid_file.appears = 1
    /\ Len(runs) = 2
    /\ runs[1].pid = SentinelPid
    /\ runs[2].pid = last.pid_file.pid
    /\ runs[2].status = "running"

----------------------------------------------------------------------------
(* Properties of cancellation (SpecWait) *)

\* C37: a cancel leaves the tasks table as it was (the task of a cancelled
\* run keeps its status, in-progress after a launch), and with it the set of
\* ready tasks; a cancel that succeeds changes only the run it cancels and
\* the slot of that run, any other cancel changes no run and no slot
C37_CancelKeepsTask ==
    [][\A t \in TaskIds :
           Ends("cancel", t) =>
               /\ tasks' = tasks
               /\ ReadyByDefinition("p1")' = ReadyByDefinition("p1")
               /\ t \notin ReadyByDefinition("p1") => t \notin ReadyByDefinition("p1")'
               /\ IF last'.outcome \in {"ok", "ok_already_exited"}
                  THEN LET r == last'.run
                       IN  /\ runs[r].task_id = t
                           /\ runs'[r].status = "cancelled"
                           /\ \A o \in DOMAIN runs : o # r => runs'[o] = runs[o]
                           /\ \A s \in DOMAIN slots :
                                  s # runs[r].worktree_slot_id => slots'[s] = slots[s]
                  ELSE slots' = slots /\ runs' = runs]_vars

\* the run of a task has just been cancelled: the task, which its launch
\* had moved to in-progress, is still in-progress and not ready, and the run
\* of the other task goes on in its slot
C37_Witness ==
    /\ last.op = "cancel"
    /\ last.outcome = "ok"
    /\ runs[last.run].status = "cancelled"
    /\ tasks[last.arg].status = "in-progress"
    /\ last.arg \notin ReadyByDefinition("p1")
    /\ \E r \in DOMAIN runs :
           /\ runs[r].status = "running"
           /\ slots[runs[r].worktree_slot_id].current_task_id = runs[r].task_id

----------------------------------------------------------------------------
(* Properties of runs and their slots (Spec) *)

\* C34: in every reachable state, every run with status running references
\* a slot that is occupied by the task of the run
C34_RunningRunHoldsSlot ==
    \A r \in DOMAIN runs :
        runs[r].status = "running" =>
            LET s == runs[r].worktree_slot_id
            IN  /\ s \in DOMAIN slots
                /\ slots[s].status = "occupied"
                /\ slots[s].current_task_id = runs[r].task_id

\* C35: whenever a run of a task becomes terminal, no slot remains occupied
\* by that task
C35_NoSlotLeak ==
    [][\A r \in DOMAIN runs :
           (runs[r].status = "running" /\ runs'[r].status \in TerminalStatuses) =>
               \A s \in DOMAIN slots' : slots'[s].current_task_id # runs[r].task_id]_vars

\* C40: a launch that succeeds returns the run it has just inserted: the
\* newest row, whose task is the launched task and whose slot is occupied
\* by that task
C40_LaunchReturnsItsRun ==
    [][\A t \in TaskIds :
           (Ends("launch", t) /\ last'.outcome = "ok") =>
               /\ last'.run = Len(runs')
               /\ runs'[last'.run].task_id = t
               /\ slots'[runs'[last'.run].worktree_slot_id].current_task_id = t]_vars

----------------------------------------------------------------------------
(* Properties of reconciliation and statuses set by hand (SpecReview) *)

\* C36: a reconciliation of a run whose task has status done leaves the
\* task done, and every task of the project that was ready is still ready
C36_ReconcileKeepsDone ==
    [][\A t \in DOMAIN tasks :
           (Reconciles /\ last'.arg = t /\ tasks[t].status = "done") =>
               /\ tasks'[t].status = "done"
               /\ ReadyByDefinition("p1") \subseteq ReadyByDefinition("p1")']_vars

\* the tasks that depend on task t
Dependents(t) == {b \in TaskIds : <<b, t>> \in deps}

\* C36, as the code has it: a reconciliation as completed sets the status
\* of the run's task to review whatever it was, done included, so that no
\* task that depends on it is ready afterwards; a reconciliation as failed
\* leaves the status of every task as it was
C36_ReconcileCompletedSetsReview ==
    [][\A t \in DOMAIN tasks :
           (Reconciles /\ last'.arg = t) =>
               /\ last'.outcome = "completed" =>
                      /\ tasks'[t].status = "review"
                      /\ tasks'[t].completed_at = tasks[t].completed_at
                      /\ Dependents(t) \cap ReadyByDefinition("p1")' = {}
               /\ last'.outcome = "failed" =>
                      \A o \in DOMAIN tasks : tasks'[o].status = tasks[o].status]_vars

\* the run of t1 has just been reconciled as completed after t1 had been
\* set to done (its completion time is stamped): t1 is in review and t2,
\* which depends on it and is todo, is not ready
C36_Witness ==
    /\ last.op = "reconcile"
    /\ last.outcome = "completed"
    /\ last.arg = "t1"
    /\ tasks["t1"].status = "review"
    /\ tasks["t1"].completed_at = 1
    /\ tasks["t2"].status = "todo"
    /\ "t2" \notin ReadyByDefinition("p1")

----------------------------------------------------------------------------
(* Properties of the ready and the blocked query (SpecPartition) *)

\* the top-level tasks of project p whose status is todo
TopLevelTodo(p) ==
    {t \in DOMAIN tasks :
        /\ tasks[t].project_id = p
        /\ tasks[t].parent_task_id = NULL
        /\ tasks[t].status = "todo"}

\* task t has a dependency that is not a stored task with status done
Open(t) ==
    \E d \in TaskIds : <<t, d>> \in deps /\ ~(d \in DOMAIN tasks /\ tasks[d].status = "done")

\* C38: in every state of the task graph, the ready query returns the
\* top-level todo tasks of the project that have no open dependency and the
\* blocked query returns those that have one: each top-level todo task of
\* the project is returned by exactly one of the two
C38_ReadyBlockedPartition ==
    /\ last.op = "get_ready_tasks" =>
           last.rows = {t \in TopLevelTodo(last.arg) : ~Open(t)}
    /\ last.op = "get_blocked_tasks" =>
           last.rows = {t \in TopLevelTodo(last.arg) : Open(t)}

\* the blocked query has just returned one of two top-level todo tasks of
\* the project, after the dependency of the other one was set to done
C38_Witness ==
    /\ last.op = "get_blocked_tasks"
    /\ last.rows # {}
    /\ TopLevelTodo(last.arg) \ last.rows # {}
    /\ \E t \in TopLevelTodo(last.arg) \ last.rows, d \in DOMAIN tasks :
           <<t, d>> \in deps /\ tasks[d].status = "done"

----------------------------------------------------------------------------
(* Properties of start and stop of the monitor (SpecStartStop) *)

\* C39: whenever start() has returned, a monitor thread is alive and the
\* stop event is clear, so that the loop goes on polling until stop() sets
\* the event
C39_StartedLoopPolls ==
    last.op = "monitor_start" => (monitor.pc # "stopped" /\ ~monitor.stop)

====
